---- MODULE Spec2Model ----
(***************************************************************************)
(* Burrito Shack executive dashboard: the filter -> derive -> insights     *)
(* pipeline of src/burrito-shack-analytics/vite.config.js (second App,     *)
(* lines 476-1417) as a state machine over the React component state.      *)
(*                                                                         *)
(* Numbers.  CSV counts and amounts are non-negative integers.  A JS       *)
(* quotient is an exact fraction <<n, d>> in lowest terms with d > 0;      *)
(* <<0, 0>> stands for NaN and <<1, 0>> for Infinity, the two values an    *)
(* unguarded division by zero produces.  Floating-point rounding is not    *)
(* modelled.                                                               *)
(*                                                                         *)
(* Dates.  A JS Date is an instant, written by its UTC wall clock          *)
(* [y, m, d, h]; the browser's local fields (getFullYear, getMonth) are    *)
(* those of the instant shifted by the timezone offset tz (hours east of   *)
(* UTC).  Records come from parseRow and carry valid dates and numbers.    *)
(***************************************************************************)
EXTENDS Integers, Sequences, FiniteSets, TLC

VARIABLES
    tz,              \* browser timezone, hours east of UTC (environment)
    csv,             \* state of the d3.csv promise: pending / loaded / failed
    rows,            \* useState([]): parsed records
    tab,             \* useState("overview")
    selectedMarket,  \* useState("All")
    selectedChannel, \* useState("All")
    startDate,       \* useState(null)
    endDate,         \* useState(null)
    rowsFiltered,    \* useMemo value, deps [rows, startDate, endDate, selectedMarket]
    metrics,         \* useMemo value, deps [rowsFiltered, channelFocus]
    insights         \* InsightsPanel useMemo value, deps [rows, channelFocus]

vars == <<tz, csv, rows, tab, selectedMarket, selectedChannel, startDate,
          endDate, rowsFiltered, metrics, insights>>

(***************************************************************************)
(* Bounds                                                                  *)
(***************************************************************************)
MaxRows == 3

(***************************************************************************)
(* JS numbers                                                              *)
(***************************************************************************)
Abs(x) == IF x < 0 THEN -x ELSE x

RECURSIVE GCD(_, _)
GCD(a, b) == IF b = 0 THEN a ELSE GCD(b, a % b)

NaN == <<0, 0>>
Infinity == <<1, 0>>
Zero == <<0, 1>>
One == <<1, 1>>

\* the fraction n/d in lowest terms, d # 0
Frac(n, d) ==
    LET g == GCD(Abs(n), Abs(d))
        s == IF d < 0 THEN -1 ELSE 1
    IN  <<(s * n) \div g, (s * d) \div g>>

\* an integer as a fraction
Q(i) == <<i, 1>>

IsFinite(x) == x[2] # 0

\* JS truthiness of a number: false for 0 and NaN
Truthy(x) == x # Zero /\ x # NaN

\* a / b on JS numbers
JsDiv(a, b) ==
    IF ~IsFinite(a) \/ ~IsFinite(b) THEN NaN
    ELSE IF b[1] = 0 THEN (IF a[1] = 0 THEN NaN ELSE Infinity)
    ELSE Frac(a[1] * b[2], a[2] * b[1])

\* a - b on JS numbers
JsSub(a, b) ==
    IF ~IsFinite(a) \/ ~IsFinite(b) THEN NaN
    ELSE Frac(a[1] * b[2] - b[1] * a[2], a[2] * b[2])

\* a < b on JS numbers (false when either is NaN)
JsLess(a, b) ==
    /\ IsFinite(a) /\ IsFinite(b)
    /\ a[1] * b[2] < b[1] * a[2]

JsAbs(a) == <<Abs(a[1]), a[2]>>

(***************************************************************************)
(* JS dates                                                                *)
(***************************************************************************)
NullDate == [y |-> 0, m |-> 0, d |-> 0, h |-> 0]

IsLeap(y) == (y % 4 = 0 /\ y % 100 # 0) \/ y % 400 = 0

DaysInMonth(y, m) ==
    IF m = 2 THEN (IF IsLeap(y) THEN 29 ELSE 28)
    ELSE IF m \in {4, 6, 9, 11} THEN 30 ELSE 31

\* +date: an order-preserving image of the instant's millisecond count
DateNum(dt) == (((dt.y * 12 + (dt.m - 1)) * 31) + (dt.d - 1)) * 24 + dt.h

NextDay(dt) ==
    IF dt.d < DaysInMonth(dt.y, dt.m) THEN [dt EXCEPT !.d = dt.d + 1]
    ELSE IF dt.m < 12 THEN [dt EXCEPT !.m = dt.m + 1, !.d = 1]
    ELSE [dt EXCEPT !.y = dt.y + 1, !.m = 1, !.d = 1]

PrevDay(dt) ==
    IF dt.d > 1 THEN [dt EXCEPT !.d = dt.d - 1]
    ELSE IF dt.m > 1 THEN [dt EXCEPT !.m = dt.m - 1, !.d = DaysInMonth(dt.y, dt.m - 1)]
    ELSE [dt EXCEPT !.y = dt.y - 1, !.m = 12, !.d = 31]

\* the wall clock k hours after dt, -24 < k < 24
ShiftHours(dt, k) ==
    LET hh == dt.h + k
    IN  IF hh < 0 THEN [PrevDay(dt) EXCEPT !.h = hh + 24]
        ELSE IF hh > 23 THEN [NextDay(dt) EXCEPT !.h = hh - 24]
        ELSE [dt EXCEPT !.h = hh]

\* local wall clock of an instant in the browser's timezone
ToLocal(dt, off) == ShiftHours(dt, off)

\* the instant whose local wall clock is loc
FromLocal(loc, off) == ShiftHours(loc, -off)

\* new Date("YYYY-MM-DD"): a date-only string is UTC midnight
DateFromIso(day) == [y |-> day.y, m |-> day.m, d |-> day.d, h |-> 0]

\* new Date("YYYY-MM-DDT00:00:00"): a date-time string without zone is local time
DateFromLocalMidnight(day, off) ==
    FromLocal([y |-> day.y, m |-> day.m, d |-> day.d, h |-> 0], off)

(***************************************************************************)
(* Records: the CSV rows the dashboard is fed and their parsed form        *)
(***************************************************************************)
Day(y, m, d) == [y |-> y, m |-> m, d |-> d]

Austin == [city |-> "Austin", state |-> "TX"]
Dallas == [city |-> "Dallas", state |-> "TX"]

ProfJan ==
    [sessions |-> 500, online_orders |-> 20, revenue |-> 1000,
     ad_spend_social |-> 100, ad_spend_search |-> 0, ad_spend_display |-> 0,
     impressions_social |-> 1000, impressions_search |-> 0, impressions_display |-> 0,
     clicks_social |-> 50, clicks_search |-> 0, clicks_display |-> 0]

ProfFeb ==
    [sessions |-> 600, online_orders |-> 25, revenue |-> 1500,
     ad_spend_social |-> 150, ad_spend_search |-> 0, ad_spend_display |-> 0,
     impressions_social |-> 1200, impressions_search |-> 0, impressions_display |-> 0,
     clicks_social |-> 60, clicks_search |-> 0, clicks_display |-> 0]

ProfMix ==
    [sessions |-> 400, online_orders |-> 10, revenue |-> 600,
     ad_spend_social |-> 50, ad_spend_search |-> 30, ad_spend_display |-> 20,
     impressions_social |-> 800, impressions_search |-> 300, impressions_display |-> 200,
     clicks_social |-> 40, clicks_search |-> 15, clicks_display |-> 0]

ProfNoAds ==
    [sessions |-> 0, online_orders |-> 0, revenue |-> 200,
     ad_spend_social |-> 0, ad_spend_search |-> 0, ad_spend_display |-> 0,
     impressions_social |-> 0, impressions_search |-> 0, impressions_display |-> 0,
     clicks_social |-> 0, clicks_search |-> 0, clicks_display |-> 0]

ProfZero ==
    [sessions |-> 0, online_orders |-> 0, revenue |-> 0,
     ad_spend_social |-> 0, ad_spend_search |-> 0, ad_spend_display |-> 0,
     impressions_social |-> 0, impressions_search |-> 0, impressions_display |-> 0,
     clicks_social |-> 0, clicks_search |-> 0, clicks_display |-> 0]

\* an array given by its elements f[1], ..., f[n]
Arr(f) == f \o <<>>

\* one line of the CSV file: the date as written, the market, the numbers
CsvRow(day, mk, prof) == [date |-> day] @@ mk @@ prof

\* the CSV lines the model draws its files from
CsvRows ==
    { CsvRow(Day(2023, 2, 10), Austin, ProfMix),
      CsvRow(Day(2024, 1, 1),  Austin, ProfJan),
      CsvRow(Day(2024, 2, 1),  Austin, ProfFeb),
      CsvRow(Day(2024, 1, 20), Dallas, ProfMix),
      CsvRow(Day(2024, 2, 10), Dallas, ProfNoAds),
      CsvRow(Day(2024, 1, 20), Austin, ProfZero) }

\* every CSV file of at most n lines
CsvFilesUpTo(n) == UNION { [1..k -> CsvRows] : k \in 0..n }

\* parseRow: the date string becomes a Date, the numeric strings numbers
parseRow(d) == [d EXCEPT !.date = DateFromIso(d.date)]

\* d3.csv(url, parseRow)
d3csv(file) == Arr([i \in 1..Len(file) |-> parseRow(file[i])])

(***************************************************************************)
(* d3 and Array helpers                                                    *)
(***************************************************************************)
\* d3.sum(arr, d => d[key])
RECURSIVE d3sum(_, _)
d3sum(arr, key) ==
    IF arr = <<>> THEN 0 ELSE arr[1][key] + d3sum(Tail(arr), key)

\* const sum = (arr, key) => d3.sum(arr, (d) => d[key] || 0)
sum(arr, key) == d3sum(arr, key)

\* the distinct keys of ks in order of first appearance (InternMap insertion order)
RECURSIVE FirstSeen(_, _)
FirstSeen(ks, acc) ==
    IF ks = <<>> THEN acc
    ELSE FirstSeen(Tail(ks),
                   IF \E j \in 1..Len(acc) : acc[j] = Head(ks)
                   THEN acc ELSE Append(acc, Head(ks)))

\* the elements of arr whose key is k, in order
RECURSIVE WithKey(_, _, _)
WithKey(arr, ks, k) ==
    IF arr = <<>> THEN <<>>
    ELSE (IF Head(ks) = k THEN <<Head(arr)>> ELSE <<>>)
         \o WithKey(Tail(arr), Tail(ks), k)

\* d3.group(arr, key) as its entry list [key, values], ks[i] the key of arr[i]
d3group(arr, ks) ==
    LET a == Arr(arr)
        k == Arr(ks)
        u == FirstSeen(k, <<>>)
    IN  Arr([i \in 1..Len(u) |-> <<u[i], WithKey(a, k, u[i])>>])

RECURSIVE InsertIdx(_, _, _)
InsertIdx(acc, i, keys) ==
    IF acc = <<>> THEN <<i>>
    ELSE IF keys[i] < keys[acc[Len(acc)]]
         THEN Append(InsertIdx(SubSeq(acc, 1, Len(acc) - 1), i, keys), acc[Len(acc)])
         ELSE Append(acc, i)

RECURSIVE SortIdx(_, _)
SortIdx(n, keys) ==
    IF n = 0 THEN <<>> ELSE InsertIdx(SortIdx(n - 1, keys), n, keys)

\* arr.sort((a, b) => key(a) - key(b)): stable, ascending in keys[i], the key of arr[i]
jsSortBy(arr, keys) ==
    LET a == Arr(arr)
        p == SortIdx(Len(a), Arr(keys))
    IN  Arr([i \in 1..Len(a) |-> a[p[i]]])

(***************************************************************************)
(* derive(rows, channelFocus)                                              *)
(***************************************************************************)
Null == "null"
Channels == <<"social", "search", "display">>

\* `${d.city}, ${d.state}`
marketKey(d) == d.city \o ", " \o d.state

\* num / den without the zero test
ratio_unguarded(num, den) == JsDiv(Q(num), Q(den))

\* den ? num / den : 0
ratio(num, den) == IF den # 0 THEN JsDiv(Q(num), Q(den)) ELSE Zero

\* the spend of all three channels whatever the focus
spendFor_allChannels(v, cf) ==
    d3sum(v, "ad_spend_social") + d3sum(v, "ad_spend_search") + d3sum(v, "ad_spend_display")

\* the spend a group's ROAS is computed on: the focused channel's, else all three
spendFor(v, cf) ==
    LET spend_social == d3sum(v, "ad_spend_social")
        spend_search == d3sum(v, "ad_spend_search")
        spend_display == d3sum(v, "ad_spend_display")
    IN  IF cf = "social" THEN spend_social
        ELSE IF cf = "search" THEN spend_search
        ELSE IF cf = "display" THEN spend_display
        ELSE spend_social + spend_search + spend_display

totalRevenue(rws) == sum(rws, "revenue")
totalOrders(rws) == sum(rws, "online_orders")
\* the sessions total read from the orders column
totalSessions_wrongKey(rws) == sum(rws, "online_orders")

totalSessions(rws) == sum(rws, "sessions")
spend_total(rws) ==
    sum(rws, "ad_spend_social") + sum(rws, "ad_spend_search") + sum(rws, "ad_spend_display")
aov(rws) == ratio(totalRevenue(rws), totalOrders(rws))
cvr(rws) == ratio(totalOrders(rws), totalSessions(rws))
roas_overall(rws) == ratio(totalRevenue(rws), spend_total(rws))

\* the rollup of one date's records v
dateEntry(k, v, cf) ==
    LET revenue == d3sum(v, "revenue")
        spend == spendFor(v, cf)
        orders == d3sum(v, "online_orders")
    IN  [date |-> k, revenue |-> revenue, roas |-> ratio(revenue, spend), orders |-> orders]

\* the per-date series left in the order the dates first occur
byDate_unsorted(rws, cf) ==
    LET g == d3group(rws, [i \in 1..Len(rws) |-> rws[i].date])
    IN  Arr([i \in 1..Len(g) |-> dateEntry(g[i][1], g[i][2], cf)])

\* the per-date series, ascending by date
byDate(rws, cf) ==
    LET g == d3group(rws, [i \in 1..Len(rws) |-> rws[i].date])
        arr == Arr([i \in 1..Len(g) |-> dateEntry(g[i][1], g[i][2], cf)])
    IN  jsSortBy(arr, [i \in 1..Len(arr) |-> DateNum(arr[i].date)])

\* a channel's ROAS on the revenue of the records that spent on it
channelEntry_attributed(rws, k) ==
    LET spend == sum(rws, "ad_spend_" \o k)
        clicks == sum(rws, "clicks_" \o k)
        impressions == sum(rws, "impressions_" \o k)
        attributed == sum(SelectSeq(rws, LAMBDA r : r["ad_spend_" \o k] # 0), "revenue")
    IN  [channel |-> k, spend |-> spend, clicks |-> clicks, impressions |-> impressions,
         cpc |-> ratio(spend, clicks),
         ctr |-> ratio(clicks, impressions),
         roas |-> ratio(attributed, spend)]

\* one entry of channelArr
channelEntry(rws, k) ==
    LET spend == sum(rws, "ad_spend_" \o k)
        clicks == sum(rws, "clicks_" \o k)
        impressions == sum(rws, "impressions_" \o k)
    IN  [channel |-> k, spend |-> spend, clicks |-> clicks, impressions |-> impressions,
         cpc |-> ratio(spend, clicks),
         ctr |-> ratio(clicks, impressions),
         roas |-> ratio(totalRevenue(rws), spend)]

\* only the channels that spent anything
channelArr_spending(rws) ==
    SelectSeq(Arr([i \in 1..Len(Channels) |-> channelEntry(rws, Channels[i])]),
              LAMBDA e : e.spend # 0)

\* Object.entries(channel).map(...): social, search, display in this order
channelArr(rws) == Arr([i \in 1..Len(Channels) |-> channelEntry(rws, Channels[i])])

\* a market's revenue taken from its first record only
marketEntry_firstRow(k, v, cf) ==
    [market |-> k, city |-> v[1].city, state |-> v[1].state,
     revenue |-> v[1].revenue, orders |-> sum(v, "online_orders"),
     sessions |-> sum(v, "sessions"), spend |-> spendFor(v, cf),
     roas |-> ratio(v[1].revenue, spendFor(v, cf)),
     cvr |-> ratio(sum(v, "online_orders"), sum(v, "sessions"))]

\* the totals of one market's records v
marketEntry(k, v, cf) ==
    LET spend == spendFor(v, cf)
        revenue == sum(v, "revenue")
        orders == sum(v, "online_orders")
        sessions == sum(v, "sessions")
    IN  [market |-> k, city |-> v[1].city, state |-> v[1].state,
         revenue |-> revenue, orders |-> orders, sessions |-> sessions,
         spend |-> spend,
         roas |-> ratio(revenue, spend),
         cvr |-> ratio(orders, sessions)]

\* the per-market table left in the order the markets first occur
byMarket_unsorted(rws, cf) ==
    LET g == d3group(rws, [i \in 1..Len(rws) |-> marketKey(rws[i])])
    IN  Arr([i \in 1..Len(g) |-> marketEntry(g[i][1], g[i][2], cf)])

\* the per-market table, descending by revenue
byMarket(rws, cf) ==
    LET g == d3group(rws, [i \in 1..Len(rws) |-> marketKey(rws[i])])
        arr == Arr([i \in 1..Len(g) |-> marketEntry(g[i][1], g[i][2], cf)])
    IN  jsSortBy(arr, [i \in 1..Len(arr) |-> -arr[i].revenue])

\* the empty result with the ratios computed as 0 / 0
emptyMetrics_unguarded ==
    [totalRevenue |-> 0, totalOrders |-> 0, totalSessions |-> 0,
     aov |-> NaN, cvr |-> NaN, roas |-> NaN,
     byDate |-> <<>>, channelArr |-> <<>>, byMarket |-> <<>>]

\* what derive returns for !rows?.length
emptyMetrics ==
    [totalRevenue |-> 0, totalOrders |-> 0, totalSessions |-> 0,
     aov |-> Zero, cvr |-> Zero, roas |-> Zero,
     byDate |-> <<>>, channelArr |-> <<>>, byMarket |-> <<>>]

\* derive whose overall ROAS is taken on the focused channel's spend
derive_focusRoas(rws, cf) ==
    IF Len(rws) = 0 THEN emptyMetrics
    ELSE [totalRevenue |-> totalRevenue(rws),
          totalOrders |-> totalOrders(rws),
          totalSessions |-> totalSessions(rws),
          aov |-> aov(rws),
          cvr |-> cvr(rws),
          roas |-> ratio(totalRevenue(rws), spendFor(rws, cf)),
          byDate |-> byDate(rws, cf),
          channelArr |-> channelArr(rws),
          byMarket |-> byMarket(rws, cf)]

derive(rws, cf) ==
    IF Len(rws) = 0 THEN emptyMetrics
    ELSE [totalRevenue |-> totalRevenue(rws),
          totalOrders |-> totalOrders(rws),
          totalSessions |-> totalSessions(rws),
          aov |-> aov(rws),
          cvr |-> cvr(rws),
          roas |-> roas_overall(rws),
          byDate |-> byDate(rws, cf),
          channelArr |-> channelArr(rws),
          byMarket |-> byMarket(rws, cf)]

(***************************************************************************)
(* buildInsights(rows, channelFocus)                                       *)
(***************************************************************************)
\* monthKey(d): local midnight of the first day of d's local month
monthKey(dt, off) ==
    LET loc == ToLocal(dt, off)
    IN  FromLocal([y |-> loc.y, m |-> loc.m, d |-> 1, h |-> 0], off)

\* addMonths(d, n): setMonth on the local fields (a day past the end of the
\* target month rolls into the next one), then the first of that month
addMonths(dt, n, off) ==
    LET loc == ToLocal(dt, off)
        mi == loc.y * 12 + (loc.m - 1) + n
        y1 == mi \div 12
        m1 == (mi % 12) + 1
        mj == IF loc.d > DaysInMonth(y1, m1) THEN mi + 1 ELSE mi
    IN  FromLocal([y |-> mj \div 12, m |-> (mj % 12) + 1, d |-> 1, h |-> 0], off)

\* previous ? (current - previous) / previous : (current ? 1 : 0), lines 1222-1224, 1236
momDelta(c, p) ==
    IF Truthy(p) THEN JsDiv(JsSub(c, p), p) ELSE (IF Truthy(c) THEN One ELSE Zero)

\* d3.format('.1%')(x): x in tenths of a percent, rounded to the nearest
fmtPct1(x) ==
    IF ~IsFinite(x) THEN x
    ELSE LET n == 1000 * Abs(x[1])
             r == (2 * n + x[2]) \div (2 * x[2])
         IN  Q(IF x[1] < 0 THEN -r ELSE r)

\* d3.timeFormat('%b %Y')(month): the local month and year
monthLabel(dt, off) ==
    LET loc == ToLocal(dt, off) IN [y |-> loc.y, m |-> loc.m]

\* the rollup of one month's records v
monthEntry(k, v, cf) ==
    LET revenue == d3sum(v, "revenue")
        orders == d3sum(v, "online_orders")
        sessions == d3sum(v, "sessions")
        spend == spendFor(v, cf)
    IN  [month |-> k, revenue |-> revenue, orders |-> orders,
         sessions |-> sessions, spend |-> spend,
         cvr |-> ratio(orders, sessions),
         roas |-> ratio(revenue, spend)]

\* the monthly rollup, ascending by month
monthly(rws, cf, off) ==
    LET g == d3group(rws, [i \in 1..Len(rws) |-> monthKey(rws[i].date, off)])
        arr == Arr([i \in 1..Len(g) |-> monthEntry(g[i][1], g[i][2], cf)])
    IN  jsSortBy(arr, [i \in 1..Len(arr) |-> DateNum(arr[i].month)])

\* monthly.find(m => +m.month === key) || { revenue:0, ... }
findMonth(mon, key) ==
    IF \E i \in 1..Len(mon) : mon[i].month = key
    THEN mon[CHOOSE i \in 1..Len(mon) :
                 /\ mon[i].month = key
                 /\ \A j \in 1..(i - 1) : mon[j].month # key]
    ELSE [revenue |-> 0, orders |-> 0, sessions |-> 0, spend |-> 0,
          cvr |-> Zero, roas |-> Zero]

\* the comparison month taken one month back
yoyOf_oneMonth(mon, off) == findMonth(mon, addMonths(mon[Len(mon)].month, -1, off))

\* yoyMonthKey = +addMonths(curr.month, -12)
yoyOf(mon, off) == findMonth(mon, addMonths(mon[Len(mon)].month, -12, off))

\* the deltas between the last two months c and p of a channel's series
channelDeltas(ch, c, p) ==
    [ch |-> ch,
     dRoas |-> momDelta(c.roas, p.roas),
     dRev |-> momDelta(Q(c.revenue), Q(p.revenue)),
     dCvr |-> momDelta(c.cvr, p.cvr)]

\* c = series[series.length - 1], p = series[series.length - 2]
lastTwoDeltas(ch, series) ==
    channelDeltas(ch, series[Len(series)], series[Len(series) - 1])

\* one channel's own month-over-month deltas, on its own spend
channelStat(rws, ch, off) == lastTwoDeltas(ch, monthly(rws, ch, off))

channelStats(rws, off) ==
    Arr([i \in 1..Len(Channels) |-> channelStat(rws, Channels[i], off)])

\* the reduce without Math.abs: the largest signed ROAS change
RECURSIVE topRoasFrom_signed(_, _, _)
topRoasFrom_signed(st, i, a) ==
    IF i > Len(st) THEN a
    ELSE topRoasFrom_signed(st, i + 1, IF JsLess(a.dRoas, st[i].dRoas) THEN st[i] ELSE a)

\* channelStats.reduce((a, b) => Math.abs(b.dRoas) > Math.abs(a.dRoas) ? b : a, channelStats[0])
RECURSIVE topRoasFrom(_, _, _)
topRoasFrom(st, i, a) ==
    IF i > Len(st) THEN a
    ELSE topRoasFrom(st, i + 1,
                     IF JsLess(JsAbs(a.dRoas), JsAbs(st[i].dRoas)) THEN st[i] ELSE a)

topRoas(st) == topRoasFrom(st, 1, st[1])

\* series[series.length - 1] || {revenue: 0}, series[series.length - 2] || {revenue: 0}
seriesGrowth(market, series) ==
    [market |-> market,
     g |-> momDelta(Q(series[Len(series)].revenue),
                    Q(IF Len(series) >= 2 THEN series[Len(series) - 1].revenue ELSE 0))]

\* a market's monthly revenue, ascending by month
marketSeries(arr) ==
    jsSortBy([j \in 1..Len(arr) |-> [month |-> arr[j][1],
                                      revenue |-> d3sum(arr[j][2], "revenue")]],
             [j \in 1..Len(arr) |-> DateNum(arr[j][1])])

\* one market's revenue growth between its own last two months
marketGrowth(market, v, off) ==
    seriesGrowth(market,
                 marketSeries(d3group(v, [j \in 1..Len(v) |-> monthKey(v[j].date, off)])))

growth(rws, off) ==
    LET marketMonthly == d3group(rws, [i \in 1..Len(rws) |-> marketKey(rws[i])])
    IN  Arr([i \in 1..Len(marketMonthly) |->
                marketGrowth(marketMonthly[i][1], marketMonthly[i][2], off)])

\* the reduce on magnitudes: the largest growth in absolute value
RECURSIVE bestFrom_abs(_, _, _)
bestFrom_abs(gr, i, a) ==
    IF i > Len(gr) THEN a
    ELSE bestFrom_abs(gr, i + 1, IF JsLess(JsAbs(a.g), JsAbs(gr[i].g)) THEN gr[i] ELSE a)

\* growth.reduce((a, b) => b.g > a.g ? b : a, growth[0])
RECURSIVE bestFrom(_, _, _)
bestFrom(gr, i, a) ==
    IF i > Len(gr) THEN a
    ELSE bestFrom(gr, i + 1, IF JsLess(a.g, gr[i].g) THEN gr[i] ELSE a)

best(gr) == bestFrom(gr, 1, gr[1])

\* (curr.cvr - prev.cvr) / (prev.cvr || 1)
watchChange(c, p) == JsDiv(JsSub(c, p), IF Truthy(p) THEN p ELSE One)

NullInsights == [isNull |-> TRUE]

\* the object buildInsights returns
payload(curr, prev, yoy, top, bst, off) ==
    [isNull |-> FALSE,
     labels |-> [currLabel |-> monthLabel(curr.month, off),
                 prevLabel |-> monthLabel(prev.month, off),
                 yoyLabel |-> monthLabel(addMonths(curr.month, -12, off), off)],
     curr |-> [revenue |-> curr.revenue, orders |-> curr.orders,
               roas |-> curr.roas, cvr |-> curr.cvr],
     prev |-> [revenue |-> prev.revenue, orders |-> prev.orders,
               roas |-> prev.roas, cvr |-> prev.cvr],
     yoy |-> [revenue |-> yoy.revenue, orders |-> yoy.orders,
              roas |-> yoy.roas, cvr |-> yoy.cvr],
     narratives |->
         [topChannel |-> [ch |-> top.ch, change |-> fmtPct1(top.dRoas)],
          bestMarket |-> [market |-> bst.market, change |-> fmtPct1(bst.g)],
          watchMetric |->
              [currLabel |-> monthLabel(curr.month, off),
               prevLabel |-> monthLabel(prev.month, off),
               change |-> fmtPct1(watchChange(curr.cvr, prev.cvr))]]]

\* buildInsights once the monthly rollup mon is known
insightsOf(mon, rws, off) ==
    IF Len(mon) < 2 THEN NullInsights
    ELSE payload(mon[Len(mon)], mon[Len(mon) - 1], yoyOf(mon, off),
                 topRoas(channelStats(rws, off)), best(growth(rws, off)), off)

buildInsights(rws, cf, off) ==
    IF Len(rws) = 0 THEN NullInsights
    ELSE insightsOf(monthly(rws, cf, off), rws, off)

(***************************************************************************)
(* InsightsPanel and DeltaCard                                             *)
(***************************************************************************)
\* (curr - prev) / (prev || 1)
DeltaCard_orOne(curr, prev) == JsDiv(JsSub(curr, prev), IF Truthy(prev) THEN prev ELSE One)

\* const pct = prev ? (curr - prev) / prev : (curr ? 1 : 0)
DeltaCard(curr, prev) ==
    IF Truthy(prev) THEN JsDiv(JsSub(curr, prev), prev)
    ELSE (IF Truthy(curr) THEN One ELSE Zero)

\* the four cards of one panel: Revenue, Orders, ROAS, CVR
deltaCards(c, p) ==
    [Revenue |-> DeltaCard(Q(c.revenue), Q(p.revenue)),
     Orders |-> DeltaCard(Q(c.orders), Q(p.orders)),
     ROAS |-> DeltaCard(c.roas, p.roas),
     CVR |-> DeltaCard(c.cvr, p.cvr)]

\* what the Insights tab renders for the memoised payload i
InsightsPanel(i) ==
    IF i.isNull THEN [placeholder |-> TRUE]
    ELSE [placeholder |-> FALSE,
          MoM |-> deltaCards(i.curr, i.prev),
          YoY |-> deltaCards(i.curr, i.yoy),
          narratives |-> i.narratives]

(***************************************************************************)
(* App: component state, memoised values, event handlers                   *)
(***************************************************************************)
TzOffsets == {-5, 0, 9}
Tabs == {"overview", "markets", "channels", "details", "insights"}
ChannelOptions == {"All", "social", "search", "display"}

\* the empty value "" of a date input
NoDay == Day(0, 0, 0)

\* the days the user picks in the date inputs
DayChoices == {Day(2024, 1, 1), Day(2024, 1, 20), Day(2024, 2, 10)}

\* the files the dashboard is served in the interactive specification
SampleFiles ==
    { <<>>,
      << CsvRow(Day(2024, 1, 1), Austin, ProfJan),
         CsvRow(Day(2024, 2, 1), Austin, ProfFeb) >>,
      << CsvRow(Day(2023, 2, 10), Austin, ProfMix),
         CsvRow(Day(2024, 1, 20), Dallas, ProfMix),
         CsvRow(Day(2024, 2, 10), Austin, ProfMix),
         CsvRow(Day(2024, 2, 10), Dallas, ProfNoAds) >>,
      << CsvRow(Day(2024, 2, 1), Dallas, ProfJan),
         CsvRow(Day(2024, 1, 20), Austin, ProfZero),
         CsvRow(Day(2024, 2, 1), Austin, ProfFeb),
         CsvRow(Day(2024, 1, 20), Dallas, ProfMix) >> }

\* const channelFocus = selectedChannel === "All" ? null : selectedChannel
focusOf(c) == IF c = "All" THEN Null ELSE c
channelFocus == focusOf(selectedChannel)

\* the date test with exclusive bounds
inDate_exclusive(r, s, e) ==
    /\ (s = NullDate \/ DateNum(r.date) > DateNum(s))
    /\ (e = NullDate \/ DateNum(r.date) < DateNum(e))

\* (!startDate || r.date >= startDate) && (!endDate || r.date <= endDate)
inDate(r, s, e) ==
    /\ (s = NullDate \/ DateNum(r.date) >= DateNum(s))
    /\ (e = NullDate \/ DateNum(r.date) <= DateNum(e))

\* the market test on the city alone
inMarket_cityOnly(r, m) == IF m = "All" THEN TRUE ELSE r.city = m

\* selectedMarket === "All" ? true : `${r.city}, ${r.state}` === selectedMarket
inMarket(r, m) == IF m = "All" THEN TRUE ELSE marketKey(r) = m

\* rows.filter(r => inDate && inMarket)
filterRows(rws, s, e, m) == SelectSeq(rws, LAMBDA r : inDate(r, s, e) /\ inMarket(r, m))

\* the options of the market select: "All" and every market of the file
markets(rws) == {"All"} \cup { marketKey(rws[i]) : i \in 1..Len(rws) }

\* d3.extent(rows, d => d.date)
extent(rws) ==
    LET ds == { rws[i].date : i \in 1..Len(rws) }
    IN  <<CHOOSE x \in ds : \A y \in ds : DateNum(x) <= DateNum(y),
          CHOOSE x \in ds : \A y \in ds : DateNum(y) <= DateNum(x)>>

\* a render whose row filter also drops the rows without spend on the selected channel
Render_channelRows(nrows, ns, ne, nm, nc) ==
    LET nf == SelectSeq(nrows, LAMBDA r :
                  /\ inDate(r, ns, ne)
                  /\ inMarket(r, nm)
                  /\ (nc = "All" \/ r["ad_spend_" \o nc] # 0))
    IN  /\ rowsFiltered' = nf
        /\ metrics' = derive(nf, focusOf(nc))
        /\ insights' = buildInsights(nf, focusOf(nc), tz)

\* a render whose metrics and insights memos miss the channel focus dependency
Recompute_rowsOnly(nf, ncf) ==
    /\ rowsFiltered' = nf
    /\ metrics' = IF nf # rowsFiltered THEN derive(nf, ncf) ELSE metrics
    /\ insights' = IF nf # rowsFiltered THEN buildInsights(nf, ncf, tz) ELSE insights

\* the memoised values after a render with filtered rows nf and focus ncf:
\* metrics and insights are recomputed when either changed
Recompute(nf, ncf) ==
    /\ rowsFiltered' = nf
    /\ metrics' = IF nf # rowsFiltered \/ ncf # channelFocus
                  THEN derive(nf, ncf) ELSE metrics
    /\ insights' = IF nf # rowsFiltered \/ ncf # channelFocus
                   THEN buildInsights(nf, ncf, tz) ELSE insights

\* a render whose Insights panel is handed the unfiltered rows
Render_rawInsights(nrows, ns, ne, nm, nc) ==
    /\ rowsFiltered' = filterRows(nrows, ns, ne, nm)
    /\ metrics' = derive(filterRows(nrows, ns, ne, nm), focusOf(nc))
    /\ insights' = buildInsights(nrows, focusOf(nc), tz)

\* one render with the new state: every useMemo whose dependencies changed
\* is recomputed, the others keep their value
Render(nrows, ns, ne, nm, nc) ==
    Recompute(IF <<nrows, ns, ne, nm>> # <<rows, startDate, endDate, selectedMarket>>
              THEN filterRows(nrows, ns, ne, nm) ELSE rowsFiltered,
              focusOf(nc))

Init ==
    /\ tz \in TzOffsets
    /\ csv = "pending"
    /\ rows = <<>>
    /\ tab = "overview"
    /\ selectedMarket = "All"
    /\ selectedChannel = "All"
    /\ startDate = NullDate
    /\ endDate = NullDate
    /\ rowsFiltered = <<>>
    /\ metrics = derive(<<>>, Null)
    /\ insights = buildInsights(<<>>, Null, tz)

\* the user acts only between renders, once pending effects have run
Idle == csv # "effect"

\* d3.csv(...).then(data => setRows(data || []))
LoadCsv(file) ==
    /\ csv = "pending"
    /\ csv' = "effect"
    /\ rows' = d3csv(file)
    /\ Render(d3csv(file), startDate, endDate, selectedMarket, selectedChannel)
    /\ UNCHANGED <<tz, tab, selectedMarket, selectedChannel, startDate, endDate>>

\* .catch(err => console.error(...))
LoadFail ==
    /\ csv = "pending"
    /\ csv' = "failed"
    /\ UNCHANGED <<tz, rows, tab, selectedMarket, selectedChannel, startDate, endDate,
                   rowsFiltered, metrics, insights>>

\* an initialisation that overwrites the bounds the user already chose
InitDateRange_overwrite ==
    /\ csv = "effect"
    /\ csv' = "ready"
    /\ LET ns == IF Len(rows) = 0 THEN startDate ELSE extent(rows)[1]
           ne == IF Len(rows) = 0 THEN endDate ELSE extent(rows)[2]
       IN  /\ startDate' = ns
           /\ endDate' = ne
           /\ Render(rows, ns, ne, selectedMarket, selectedChannel)
    /\ UNCHANGED <<tz, rows, tab, selectedMarket, selectedChannel>>

\* useEffect(..., [rows]): initialise the date range once data loads
InitDateRange ==
    /\ csv = "effect"
    /\ csv' = "ready"
    /\ LET ns == IF Len(rows) = 0 \/ startDate # NullDate THEN startDate ELSE extent(rows)[1]
           ne == IF Len(rows) = 0 \/ endDate # NullDate THEN endDate ELSE extent(rows)[2]
       IN  /\ startDate' = ns
           /\ endDate' = ne
           /\ Render(rows, ns, ne, selectedMarket, selectedChannel)
    /\ UNCHANGED <<tz, rows, tab, selectedMarket, selectedChannel>>

\* DateInput handle: onChange(v ? new Date(v + "T00:00:00") : null)
dateInputValue(v) == IF v = NoDay THEN NullDate ELSE DateFromLocalMidnight(v, tz)

SetStartDate(v) ==
    /\ Idle
    /\ startDate' = dateInputValue(v)
    /\ Render(rows, dateInputValue(v), endDate, selectedMarket, selectedChannel)
    /\ UNCHANGED <<tz, csv, rows, tab, selectedMarket, selectedChannel, endDate>>

SetEndDate(v) ==
    /\ Idle
    /\ endDate' = dateInputValue(v)
    /\ Render(rows, startDate, dateInputValue(v), selectedMarket, selectedChannel)
    /\ UNCHANGED <<tz, csv, rows, tab, selectedMarket, selectedChannel, startDate>>

SetSelectedMarket(m) ==
    /\ Idle
    /\ m \in markets(rows)
    /\ selectedMarket' = m
    /\ Render(rows, startDate, endDate, m, selectedChannel)
    /\ UNCHANGED <<tz, csv, rows, tab, selectedChannel, startDate, endDate>>

SetSelectedChannel(c) ==
    /\ Idle
    /\ selectedChannel' = c
    /\ Render(rows, startDate, endDate, selectedMarket, c)
    /\ UNCHANGED <<tz, csv, rows, tab, selectedMarket, startDate, endDate>>

SetTab(t) ==
    /\ Idle
    /\ tab' = t
    /\ UNCHANGED <<tz, csv, rows, selectedMarket, selectedChannel, startDate, endDate,
                   rowsFiltered, metrics, insights>>

\* a Reset that forgets the channel select
Reset_keepsChannel ==
    /\ Idle
    /\ LET ns == IF Len(rows) # 0 THEN extent(rows)[1] ELSE startDate
           ne == IF Len(rows) # 0 THEN extent(rows)[2] ELSE endDate
       IN  /\ startDate' = ns
           /\ endDate' = ne
           /\ selectedMarket' = "All"
           /\ Render(rows, ns, ne, "All", selectedChannel)
    /\ UNCHANGED <<tz, csv, rows, tab, selectedChannel>>

\* the Reset button of the FilterBar
Reset ==
    /\ Idle
    /\ LET ns == IF Len(rows) # 0 THEN extent(rows)[1] ELSE startDate
           ne == IF Len(rows) # 0 THEN extent(rows)[2] ELSE endDate
       IN  /\ startDate' = ns
           /\ endDate' = ne
           /\ selectedMarket' = "All"
           /\ selectedChannel' = "All"
           /\ Render(rows, ns, ne, "All", "All")
    /\ UNCHANGED <<tz, csv, rows, tab>>

Next ==
    \/ \E file \in SampleFiles : LoadCsv(file)
    \/ LoadFail
    \/ InitDateRange
    \/ \E v \in DayChoices \cup {NoDay} : SetStartDate(v)
    \/ \E v \in DayChoices \cup {NoDay} : SetEndDate(v)
    \/ \E m \in markets(rows) : SetSelectedMarket(m)
    \/ \E c \in ChannelOptions : SetSelectedChannel(c)
    \/ \E t \in Tabs : SetTab(t)
    \/ Reset

Spec == Init /\ [][Next]_vars

\* the pipeline on every file of at most MaxRows lines and every channel focus
NextDerive ==
    \/ \E file \in CsvFilesUpTo(MaxRows) : LoadCsv(file)
    \/ InitDateRange
    \/ \E c \in ChannelOptions : SetSelectedChannel(c)

SpecDerive == Init /\ [][NextDerive]_vars

(***************************************************************************)
(* Properties                                                              *)
(***************************************************************************)
\* the sum of a column, by index
RECURSIVE RefSumTo(_, _, _)
RefSumTo(arr, key, n) == IF n = 0 THEN 0 ELSE arr[n][key] + RefSumTo(arr, key, n - 1)
RefSum(arr, key) == RefSumTo(arr, key, Len(arr))

\* the spend a focus selects: the focused column, else the three columns together
RefSpend(arr, cf) ==
    IF cf = Null
    THEN RefSum(arr, "ad_spend_social") + RefSum(arr, "ad_spend_search")
         + RefSum(arr, "ad_spend_display")
    ELSE RefSum(arr, "ad_spend_" \o cf)

RefRowsOn(date) == SelectSeq(rowsFiltered, LAMBDA r : r.date = date)
RefRowsOf(market) == SelectSeq(rowsFiltered, LAMBDA r : r.city \o ", " \o r.state = market)

\* C1: totalRevenue, totalOrders and totalSessions returned by derive are the
\* sums of revenue, online_orders and sessions over all the records it was
\* given, for every record set and every channel focus.
C1_TotalsAreSums ==
    /\ metrics.totalRevenue = RefSum(rowsFiltered, "revenue")
    /\ metrics.totalOrders = RefSum(rowsFiltered, "online_orders")
    /\ metrics.totalSessions = RefSum(rowsFiltered, "sessions")

C1_Witness ==
    /\ Len(rowsFiltered) >= 2
    /\ channelFocus # Null
    /\ metrics.totalRevenue > 0
    /\ metrics.totalOrders > 0
    /\ metrics.totalSessions > metrics.totalOrders

\* a ratio is a finite number, and 0 when its denominator is 0
ZeroDenOk(den, x) == IsFinite(x) /\ (den = 0 => x = Zero)

\* C2: every ratio derive returns is 0 when its denominator is 0 and is never
\* NaN or infinite: cvr, roas and aov of the totals, the ROAS of every date,
\* the ROAS and CVR of every market, the CPC, CTR and ROAS of every channel.
C2_ZeroDenominatorYieldsZero ==
    /\ ZeroDenOk(RefSum(rowsFiltered, "sessions"), metrics.cvr)
    /\ ZeroDenOk(RefSpend(rowsFiltered, Null), metrics.roas)
    /\ ZeroDenOk(RefSum(rowsFiltered, "online_orders"), metrics.aov)
    /\ \A i \in 1..Len(metrics.byDate) :
          ZeroDenOk(RefSpend(RefRowsOn(metrics.byDate[i].date), channelFocus),
                    metrics.byDate[i].roas)
    /\ \A i \in 1..Len(metrics.byMarket) :
          LET e == metrics.byMarket[i]
              v == RefRowsOf(e.market)
          IN  /\ ZeroDenOk(RefSpend(v, channelFocus), e.roas)
              /\ ZeroDenOk(RefSum(v, "sessions"), e.cvr)
    /\ \A i \in 1..Len(metrics.channelArr) :
          LET e == metrics.channelArr[i]
          IN  /\ ZeroDenOk(RefSum(rowsFiltered, "clicks_" \o e.channel), e.cpc)
              /\ ZeroDenOk(RefSum(rowsFiltered, "impressions_" \o e.channel), e.ctr)
              /\ ZeroDenOk(RefSum(rowsFiltered, "ad_spend_" \o e.channel), e.roas)

C2_Witness ==
    /\ Len(rowsFiltered) > 0
    /\ metrics.totalRevenue > 0
    /\ RefSpend(rowsFiltered, Null) = 0
    /\ RefSum(rowsFiltered, "sessions") = 0
    /\ metrics.roas = Zero
    /\ metrics.cvr = Zero

C4_MarketRevenueAddsUp ==
    RefSum(metrics.byMarket, "revenue") = metrics.totalRevenue

C4_Witness ==
    /\ Len(metrics.byMarket) >= 2
    /\ Len(rowsFiltered) > Len(metrics.byMarket)
    /\ channelFocus # Null
    /\ metrics.totalRevenue > 0

\* pct is the relative change from p to c: (c - p) / p when p # 0, 1 when
\* p = 0 and c # 0, 0 when both are 0  (c, p, pct fractions)
RefPct(c, p, pct) ==
    IF p[1] # 0
    THEN /\ IsFinite(pct)
         /\ pct[1] * (c[2] * p[1]) = (c[1] * p[2] - p[1] * c[2]) * pct[2]
    ELSE IF c[1] # 0 THEN pct = One ELSE pct = Zero

RefCards(c, p, cards) ==
    /\ RefPct(Q(c.revenue), Q(p.revenue), cards.Revenue)
    /\ RefPct(Q(c.orders), Q(p.orders), cards.Orders)
    /\ RefPct(c.roas, p.roas, cards.ROAS)
    /\ RefPct(c.cvr, p.cvr, cards.CVR)

\* C5: every MoM and YoY card (Revenue, Orders, ROAS, CVR) shows
\* (current - previous) / previous when previous is nonzero, +100% when
\* previous is zero and current is not, 0% when both are zero; (150, 100)
\* gives +50%, (100, 0) gives +100%, (0, 0) gives 0%.
C5_DeltaConvention ==
    /\ DeltaCard(Q(150), Q(100)) = <<1, 2>>
    /\ DeltaCard(Q(100), Q(0)) = One
    /\ DeltaCard(Q(0), Q(0)) = Zero
    /\ ~insights.isNull =>
          /\ RefCards(insights.curr, insights.prev, InsightsPanel(insights).MoM)
          /\ RefCards(insights.curr, insights.yoy, InsightsPanel(insights).YoY)

C5_Witness ==
    /\ ~insights.isNull
    /\ insights.prev.revenue # 0 /\ insights.curr.revenue # insights.prev.revenue
    /\ insights.yoy.revenue = 0 /\ insights.curr.revenue # 0
    /\ insights.curr.orders = 0 /\ insights.yoy.orders = 0
    /\ InsightsPanel(insights).YoY.Revenue = One
    /\ InsightsPanel(insights).YoY.Orders = Zero

\* the calendar months (year, month) of the dates of the records
RefMonths(arr) == { <<arr[i].date.y, arr[i].date.m>> : i \in 1..Len(arr) }

\* C6 as claimed: buildInsights returns null exactly when the records lie in
\* fewer than two calendar months (none, or all in one month), a payload
\* otherwise, and the Insights panel shows the placeholder exactly for null.
C6_NullIffFewerThanTwoMonths ==
    /\ insights.isNull <=> Cardinality(RefMonths(rowsFiltered)) < 2
    /\ InsightsPanel(insights).placeholder <=> insights.isNull

\* a record passes the date range: both bounds inclusive, a null bound open
RefBefore(a, b) ==
    \/ a.y < b.y
    \/ a.y = b.y /\ a.m < b.m
    \/ a.y = b.y /\ a.m = b.m /\ a.d < b.d
    \/ a.y = b.y /\ a.m = b.m /\ a.d = b.d /\ a.h < b.h

RefInRange(r) ==
    /\ (startDate = NullDate \/ ~RefBefore(r.date, startDate))
    /\ (endDate = NullDate \/ ~RefBefore(endDate, r.date))

RefInMarket(r) ==
    selectedMarket = "All" \/ r.city \o ", " \o r.state = selectedMarket

\* the positions of rows whose record passes date range and market
RefKept == { i \in 1..Len(rows) : RefInRange(rows[i]) /\ RefInMarket(rows[i]) }

\* the k-th smallest element of a set of positions
RefNth(S, k) == CHOOSE i \in S : Cardinality({ j \in S : j <= i }) = k

\* C7: with respect to dates a record passes the filter iff
\* startDate <= record.date <= endDate, both bounds inclusive, a null bound
\* imposing nothing on its side.
C7_DateBoundsInclusive ==
    \A i \in 1..Len(rows) :
        RefInMarket(rows[i]) =>
            ((\E k \in 1..Len(rowsFiltered) : rowsFiltered[k] = rows[i])
                <=> RefInRange(rows[i]))

\* only startDate is set, a record dated exactly startDate passes, an earlier
\* one is excluded
C7_Witness ==
    /\ startDate # NullDate /\ endDate = NullDate
    /\ \E i \in 1..Len(rows) : RefInMarket(rows[i]) /\ rows[i].date = startDate
    /\ \E i \in 1..Len(rows) : RefInMarket(rows[i]) /\ RefBefore(rows[i].date, startDate)
    /\ \E k \in 1..Len(rowsFiltered) : rowsFiltered[k].date = startDate
    /\ \A k \in 1..Len(rowsFiltered) : ~RefBefore(rowsFiltered[k].date, startDate)

\* C8: with market "All" no record is dropped for its market; with any other
\* value exactly the records whose "{city}, {state}" equals it are kept; the
\* output is the kept records in their original order.
C8_MarketExactAndOrdered ==
    /\ Len(rowsFiltered) = Cardinality(RefKept)
    /\ \A k \in 1..Len(rowsFiltered) : rowsFiltered[k] = rows[RefNth(RefKept, k)]

C8_Witness ==
    /\ selectedMarket # "All"
    /\ Len(rowsFiltered) >= 2
    /\ \E i \in 1..Len(rows) : RefInRange(rows[i]) /\ ~RefInMarket(rows[i])
    /\ \E i, j \in RefKept : i + 1 < j

\* C9: a change of the selected channel alone leaves the filtered rows as
\* they are: which records pass depends on rows, date range and market only.
C9_ChannelKeepsRows ==
    [][(/\ selectedChannel' # selectedChannel
        /\ rows' = rows
        /\ startDate' = startDate
        /\ endDate' = endDate
        /\ selectedMarket' = selectedMarket) => rowsFiltered' = rowsFiltered]_vars

\* a channel is selected on which some filtered record has no spend
C9_Witness ==
    /\ selectedChannel # "All"
    /\ Len(rowsFiltered) >= 2
    /\ \E k \in 1..Len(rowsFiltered) : rowsFiltered[k]["ad_spend_" \o selectedChannel] = 0
    /\ \E k \in 1..Len(rowsFiltered) : rowsFiltered[k]["ad_spend_" \o selectedChannel] # 0

\* x is num / den, and 0 when den = 0
RefRatio(x, num, den) ==
    IF den = 0 THEN x = Zero
    ELSE IsFinite(x) /\ x[1] * den = num * x[2]

\* the two Austin, TX records of the end-to-end scenario, as parsed
RefScenarioRows ==
    d3csv(<< CsvRow(Day(2024, 1, 1), Austin, ProfJan),
             CsvRow(Day(2024, 2, 1), Austin, ProfFeb) >>)

\* C11 as claimed: for the two Austin records (2024-01-01: revenue 1000,
\* orders 20, sessions 500, social spend 100; 2024-02-01: revenue 1500,
\* orders 25, sessions 600, social spend 150) and no channel focus the totals
\* are revenue 2500, orders 45, sessions 1100, spend 250, ROAS 10,
\* AOV 2500/45, CVR 45/1100, and the insights have curr = February 2024 with
\* revenue 1500, prev = January 2024 with revenue 1000, MoM revenue +50%.
C11_EndToEndScenario ==
    (rows = RefScenarioRows /\ rowsFiltered = rows /\ channelFocus = Null) =>
        /\ metrics.totalRevenue = 2500
        /\ metrics.totalOrders = 45
        /\ metrics.totalSessions = 1100
        /\ spend_total(rowsFiltered) = 250
        /\ metrics.roas = Q(10)
        /\ RefRatio(metrics.aov, 2500, 45)
        /\ RefRatio(metrics.cvr, 45, 1100)
        /\ ~insights.isNull
        /\ insights.labels.currLabel = [y |-> 2024, m |-> 2]
        /\ insights.curr.revenue = 1500
        /\ insights.labels.prevLabel = [y |-> 2024, m |-> 1]
        /\ insights.prev.revenue = 1000
        /\ InsightsPanel(insights).MoM.Revenue = <<1, 2>>

\* two results of derive agree on the six top-level totals
RefSameTotals(a, b) ==
    /\ a.totalRevenue = b.totalRevenue
    /\ a.totalOrders = b.totalOrders
    /\ a.totalSessions = b.totalSessions
    /\ a.aov = b.aov
    /\ a.cvr = b.cvr
    /\ a.roas = b.roas

\* C12: totalRevenue, totalOrders, totalSessions, aov, cvr and the overall
\* roas of derive are the same for every channel focus on the same records,
\* and the overall roas is totalRevenue over the sum of the three
\* channel-spend columns.
C12_TotalsIgnoreFocus ==
    /\ \A cf \in {Null, "social", "search", "display"} :
          RefSameTotals(derive(rowsFiltered, cf), metrics)
    /\ RefRatio(metrics.roas, RefSum(rowsFiltered, "revenue"),
                RefSum(rowsFiltered, "ad_spend_social")
                + RefSum(rowsFiltered, "ad_spend_search")
                + RefSum(rowsFiltered, "ad_spend_display"))

\* a channel is focused whose spend is a nonzero part of a larger total spend
C12_Witness ==
    /\ channelFocus # Null
    /\ RefSpend(rowsFiltered, channelFocus) # 0
    /\ RefSpend(rowsFiltered, channelFocus) < RefSpend(rowsFiltered, Null)
    /\ metrics.roas # Zero
    /\ \E i \in 1..Len(metrics.byDate) :
          metrics.byDate[i].roas # derive(rowsFiltered, Null).byDate[i].roas

\* C13: an empty record set, a filter selection matching no record included,
\* is not an error: derive returns totalRevenue, totalOrders, totalSessions,
\* aov, cvr and roas all 0 and empty byDate and byMarket.
C13_EmptyIsZero ==
    Len(rowsFiltered) = 0 =>
        /\ metrics.totalRevenue = 0
        /\ metrics.totalOrders = 0
        /\ metrics.totalSessions = 0
        /\ metrics.aov = Zero
        /\ metrics.cvr = Zero
        /\ metrics.roas = Zero
        /\ metrics.byDate = <<>>
        /\ metrics.byMarket = <<>>

\* the file has records, the selected market and date range match none
C13_Witness ==
    /\ Len(rows) > 0
    /\ selectedMarket # "All"
    /\ startDate # NullDate
    /\ Len(rowsFiltered) = 0
    /\ metrics.totalRevenue = 0
    /\ metrics.byMarket = <<>>

\* the rearrangements of an array
RefPermutationsOf(arr) ==
    { Arr([i \in 1..Len(arr) |-> arr[p[i]]]) : p \in Permutations(1..Len(arr)) }

\* C14 as claimed: the order of the records is irrelevant: on every
\* rearrangement of the records derive returns the same totals, byDate,
\* channelArr and byMarket (the order of markets of equal revenue included)
\* and buildInsights the same payload (the channel and the market named in
\* the narratives included).
C14_OrderIrrelevant ==
    \A q \in RefPermutationsOf(rowsFiltered) :
        /\ derive(q, channelFocus) = metrics
        /\ buildInsights(q, channelFocus, tz) = insights

\* C15: after any sequence of load, date, market, channel, tab changes and
\* Reset every tab shows results of the current state: the filtered rows are
\* the rows passing the current date range and market, the metrics are
\* derive of them with the current channel focus, the insights are
\* buildInsights of them with the current channel focus.
C15_TabsShowCurrentState ==
    /\ rowsFiltered = filterRows(rows, startDate, endDate, selectedMarket)
    /\ metrics = derive(rowsFiltered, channelFocus)
    /\ insights = buildInsights(rowsFiltered, channelFocus, tz)

\* the Insights tab is open with a market, a channel and an end date chosen
C15_Witness ==
    /\ tab = "insights"
    /\ csv = "ready"
    /\ selectedMarket # "All"
    /\ channelFocus # Null
    /\ endDate # NullDate /\ endDate # extent(rows)[2]
    /\ Len(rowsFiltered) > 0 /\ Len(rowsFiltered) < Len(rows)
    /\ metrics # derive(rows, Null)

\* C16 as claimed: the insights are computed from the raw rows and the
\* channel focus only: for a fixed dataset and channel, a change of the date
\* range or of the market leaves the insight payload unchanged.
C16_InsightsIgnoreFilters ==
    [][(rows' = rows /\ selectedChannel' = selectedChannel)
          => insights' = insights]_vars

\* the rows passing the current date range and market, in file order
RefFiltered == Arr([k \in 1..Cardinality(RefKept) |-> rows[RefNth(RefKept, k)]])

\* C16: the insights are computed from the filtered rows (date range and
\* market applied) and the channel focus: the payload is always that of the
\* rows passing the current filters, so a change of date range or market
\* changes it only through the rows that pass.
C16_InsightsOfFilteredRows ==
    insights = buildInsights(RefFiltered, channelFocus, tz)

\* a market is selected and the payload differs from that of the raw rows
C16_Witness ==
    /\ selectedMarket # "All"
    /\ Len(RefFiltered) < Len(rows)
    /\ ~insights.isNull
    /\ ~buildInsights(rows, channelFocus, tz).isNull
    /\ insights.curr # buildInsights(rows, channelFocus, tz).curr

\* months as <<year, month>>, ordered
RefMonthBefore(a, b) == a[1] * 12 + a[2] < b[1] * 12 + b[2]
RefLatest(S) == CHOOSE x \in S : \A y \in S : ~RefMonthBefore(x, y)
RefLabel(ym) == [y |-> ym[1], m |-> ym[2]]

\* the filtered records dated in calendar month ym
RefRowsInMonth(ym) ==
    SelectSeq(rowsFiltered, LAMBDA r : <<r.date.y, r.date.m>> = ym)

\* the bucket b holds exactly the records of calendar month ym
RefBucketIs(b, ym) ==
    /\ b.revenue = RefSum(RefRowsInMonth(ym), "revenue")
    /\ b.orders = RefSum(RefRowsInMonth(ym), "online_orders")
    /\ RefRatio(b.cvr, RefSum(RefRowsInMonth(ym), "online_orders"),
                RefSum(RefRowsInMonth(ym), "sessions"))
    /\ RefRatio(b.roas, RefSum(RefRowsInMonth(ym), "revenue"),
                RefSpend(RefRowsInMonth(ym), channelFocus))

\* C17 as claimed: whenever buildInsights returns a payload, curr is the
\* bucket of the latest month present in the records and prev the bucket of
\* the second-latest month present, adjacent or not, and each bucket holds
\* exactly the records whose date has that year and month.
C17_CurrPrevAreLatestMonths ==
    ~insights.isNull =>
        /\ Cardinality(RefMonths(rowsFiltered)) >= 2
        /\ LET c == RefLatest(RefMonths(rowsFiltered))
               p == RefLatest(RefMonths(rowsFiltered) \ {c})
           IN  /\ insights.labels.currLabel = RefLabel(c)
               /\ insights.labels.prevLabel = RefLabel(p)
               /\ RefBucketIs(insights.curr, c)
               /\ RefBucketIs(insights.prev, p)

\* the month of a record as the browser sees it
RefLocalMonth(r) == <<ToLocal(r.date, tz).y, ToLocal(r.date, tz).m>>

\* the filtered records of the bucket labelled l
RefRowsOfBucket(l) ==
    SelectSeq(rowsFiltered, LAMBDA r : RefLocalMonth(r) = <<l.y, l.m>>)

\* the values x shown for a bucket are the rollup of the records v
RefRollupIs(x, v) ==
    /\ x.revenue = RefSum(v, "revenue")
    /\ x.orders = RefSum(v, "online_orders")
    /\ RefRatio(x.cvr, RefSum(v, "online_orders"), RefSum(v, "sessions"))
    /\ RefRatio(x.roas, RefSum(v, "revenue"), RefSpend(v, channelFocus))

RefOneOrZero(x) == IF x[1] # 0 THEN One ELSE Zero

\* C18: the yoy values are those of the monthly bucket exactly 12 months
\* before curr's month when the records have such a bucket, and revenue,
\* orders, roas, cvr = 0 when they have not; every YoY card then shows +100%
\* for a nonzero current value and 0% for a zero one.
C18_YoyIsTwelveMonthsBack ==
    ~insights.isNull =>
        /\ insights.labels.yoyLabel =
              [y |-> insights.labels.currLabel.y - 1, m |-> insights.labels.currLabel.m]
        /\ IF Len(RefRowsOfBucket(insights.labels.yoyLabel)) > 0
           THEN RefRollupIs(insights.yoy, RefRowsOfBucket(insights.labels.yoyLabel))
           ELSE /\ insights.yoy = [revenue |-> 0, orders |-> 0, roas |-> Zero, cvr |-> Zero]
                /\ InsightsPanel(insights).YoY =
                      [Revenue |-> RefOneOrZero(Q(insights.curr.revenue)),
                       Orders |-> RefOneOrZero(Q(insights.curr.orders)),
                       ROAS |-> RefOneOrZero(insights.curr.roas),
                       CVR |-> RefOneOrZero(insights.curr.cvr)]

\* the records have the month one year before the current one, and another
\* month in between
C18_Witness ==
    /\ ~insights.isNull
    /\ insights.yoy.revenue > 0
    /\ insights.yoy.revenue # insights.prev.revenue
    /\ insights.labels.prevLabel # insights.labels.yoyLabel
    /\ InsightsPanel(insights).YoY.Revenue \notin {One, Zero}

\* C19: for a non-empty record set byDate has exactly one entry per distinct
\* date of the records, each with the sums of revenue and orders over the
\* records of that date, in strictly ascending date order.
C19_ByDateOnePerDateAscending ==
    Len(rowsFiltered) > 0 =>
        /\ { metrics.byDate[i].date : i \in 1..Len(metrics.byDate) }
              = { rowsFiltered[k].date : k \in 1..Len(rowsFiltered) }
        /\ \A i \in 1..Len(metrics.byDate) :
              /\ metrics.byDate[i].revenue = RefSum(RefRowsOn(metrics.byDate[i].date), "revenue")
              /\ metrics.byDate[i].orders =
                    RefSum(RefRowsOn(metrics.byDate[i].date), "online_orders")
        /\ \A i \in 1..(Len(metrics.byDate) - 1) :
              RefBefore(metrics.byDate[i].date, metrics.byDate[i + 1].date)

\* three records on two dates, the later date first in the file
C19_Witness ==
    /\ Len(rowsFiltered) = 3
    /\ Len(metrics.byDate) = 2
    /\ RefBefore(rowsFiltered[3].date, rowsFiltered[1].date)
    /\ rowsFiltered[2].date = rowsFiltered[1].date
    /\ metrics.byDate[2].revenue = rowsFiltered[1].revenue + rowsFiltered[2].revenue
    /\ rowsFiltered[2].revenue > 0

\* C20: the spend behind the ROAS of every byDate entry, every byMarket
\* entry and every insight monthly bucket is the focused channel's spend
\* column summed over the group's records when a channel is focused and the
\* sum of the three spend columns when none is; the ROAS is the group's
\* revenue over that spend.
C20_SpendFollowsFocus ==
    /\ \A i \in 1..Len(metrics.byDate) :
          RefRatio(metrics.byDate[i].roas,
                   RefSum(RefRowsOn(metrics.byDate[i].date), "revenue"),
                   RefSpend(RefRowsOn(metrics.byDate[i].date), channelFocus))
    /\ \A i \in 1..Len(metrics.byMarket) :
          /\ metrics.byMarket[i].spend =
                RefSpend(RefRowsOf(metrics.byMarket[i].market), channelFocus)
          /\ RefRatio(metrics.byMarket[i].roas,
                      RefSum(RefRowsOf(metrics.byMarket[i].market), "revenue"),
                      RefSpend(RefRowsOf(metrics.byMarket[i].market), channelFocus))
    /\ ~insights.isNull =>
          /\ RefRatio(insights.curr.roas,
                      RefSum(RefRowsOfBucket(insights.labels.currLabel), "revenue"),
                      RefSpend(RefRowsOfBucket(insights.labels.currLabel), channelFocus))
          /\ RefRatio(insights.prev.roas,
                      RefSum(RefRowsOfBucket(insights.labels.prevLabel), "revenue"),
                      RefSpend(RefRowsOfBucket(insights.labels.prevLabel), channelFocus))

\* search is focused: 600 of revenue on 30 of search spend out of 100 in all
C20_Witness ==
    /\ channelFocus = "search"
    /\ ~insights.isNull
    /\ insights.curr.roas = Q(20)
    /\ \E i \in 1..Len(metrics.byMarket) :
          metrics.byMarket[i].spend = 30 /\ metrics.byMarket[i].roas = Q(20)
    /\ \E i \in 1..Len(metrics.byDate) : metrics.byDate[i].roas = Q(20)

\* C21: channelArr is the same for every channel focus on the same records:
\* each channel's spend, clicks and impressions are summed over all the
\* records and its ROAS is the overall totalRevenue over the channel's own
\* spend.
C21_ChannelsIgnoreFocus ==
    /\ \A cf \in {Null, "social", "search", "display"} :
          derive(rowsFiltered, cf).channelArr = metrics.channelArr
    /\ \A i \in 1..Len(metrics.channelArr) :
          /\ metrics.channelArr[i].spend =
                RefSum(rowsFiltered, "ad_spend_" \o metrics.channelArr[i].channel)
          /\ metrics.channelArr[i].clicks =
                RefSum(rowsFiltered, "clicks_" \o metrics.channelArr[i].channel)
          /\ metrics.channelArr[i].impressions =
                RefSum(rowsFiltered, "impressions_" \o metrics.channelArr[i].channel)
          /\ RefRatio(metrics.channelArr[i].roas, RefSum(rowsFiltered, "revenue"),
                      metrics.channelArr[i].spend)

\* a channel is focused, and some revenue comes from a record without spend
\* on a channel the other records spent on
C21_Witness ==
    /\ channelFocus # Null
    /\ Len(metrics.channelArr) = 3
    /\ metrics.channelArr[2].spend > 0
    /\ metrics.channelArr[1].spend > metrics.channelArr[2].spend
    /\ \E k \in 1..Len(rowsFiltered) :
          rowsFiltered[k].ad_spend_search = 0 /\ rowsFiltered[k].revenue > 0

\* C22: for a non-empty record set byMarket has exactly one entry per
\* distinct "{city}, {state}" of the records, each with the sums of revenue,
\* orders and sessions over that market's records, ordered by non-increasing
\* revenue.
C22_ByMarketOnePerMarketDescending ==
    Len(rowsFiltered) > 0 =>
        /\ { metrics.byMarket[i].market : i \in 1..Len(metrics.byMarket) }
              = { rowsFiltered[k].city \o ", " \o rowsFiltered[k].state :
                     k \in 1..Len(rowsFiltered) }
        /\ \A i, j \in 1..Len(metrics.byMarket) :
              i # j => metrics.byMarket[i].market # metrics.byMarket[j].market
        /\ \A i \in 1..Len(metrics.byMarket) :
              /\ metrics.byMarket[i].revenue =
                    RefSum(RefRowsOf(metrics.byMarket[i].market), "revenue")
              /\ metrics.byMarket[i].orders =
                    RefSum(RefRowsOf(metrics.byMarket[i].market), "online_orders")
              /\ metrics.byMarket[i].sessions =
                    RefSum(RefRowsOf(metrics.byMarket[i].market), "sessions")
        /\ \A i \in 1..(Len(metrics.byMarket) - 1) :
              metrics.byMarket[i].revenue >= metrics.byMarket[i + 1].revenue

\* two markets, the one met first in the records earning less
C22_Witness ==
    /\ Len(rowsFiltered) = 3
    /\ Len(metrics.byMarket) = 2
    /\ metrics.byMarket[2].market = rowsFiltered[1].city \o ", " \o rowsFiltered[1].state
    /\ metrics.byMarket[1].revenue > metrics.byMarket[2].revenue
    /\ metrics.byMarket[1].revenue > rowsFiltered[2].revenue
    /\ metrics.byMarket[1].revenue > rowsFiltered[3].revenue

\* num / den as a fraction, 0 when den = 0
RefFracOf(num, den) == IF den = 0 THEN Zero ELSE Frac(num, den)

\* the relative change from p to c by the delta convention (c, p finite fractions)
RefDeltaOf(c, p) ==
    IF p[1] # 0 THEN Frac(c[1] * p[2] - p[1] * c[2], c[2] * p[1])
    ELSE IF c[1] # 0 THEN One ELSE Zero

\* |a| <= |b|, a <= b on finite fractions
RefAbsLeq(a, b) == Abs(a[1]) * b[2] <= Abs(b[1]) * a[2]
RefLeq(a, b) == a[1] * b[2] <= b[1] * a[2]

\* r is x in tenths of a percent, rounded to the nearest
RefRounds(r, x) ==
    /\ r[2] = 1
    /\ 2 * Abs(1000 * x[1] - r[1] * x[2]) <= x[2]

\* channel ch's ROAS in the bucket labelled l: the bucket's revenue over
\* the channel's own spend
RefChannelRoas(l, ch) ==
    RefFracOf(RefSum(RefRowsOfBucket(l), "revenue"),
              RefSum(RefRowsOfBucket(l), "ad_spend_" \o ch))

\* channel ch's ROAS change between the last two months
RefChannelDelta(ch) ==
    RefDeltaOf(RefChannelRoas(insights.labels.currLabel, ch),
               RefChannelRoas(insights.labels.prevLabel, ch))

\* C23: the topChannel narrative does not depend on the channel focus: each
\* of social, search and display has its ROAS change between the last two
\* months computed on its own spend with the delta convention, and the
\* channel named is one whose change has the largest absolute value of the
\* three; the figure shown is that change.
C23_TopChannelLargestAbsChange ==
    /\ [](~insights.isNull =>
             /\ insights.narratives.topChannel.ch \in {"social", "search", "display"}
             /\ \A ch \in {"social", "search", "display"} :
                   RefAbsLeq(RefChannelDelta(ch),
                             RefChannelDelta(insights.narratives.topChannel.ch))
             /\ RefRounds(insights.narratives.topChannel.change,
                          RefChannelDelta(insights.narratives.topChannel.ch)))
    /\ [][(/\ selectedChannel' # selectedChannel
           /\ rowsFiltered' = rowsFiltered
           /\ ~insights.isNull)
             => /\ ~insights'.isNull
                /\ insights'.narratives.topChannel = insights.narratives.topChannel]_vars

\* a channel is focused; search fell by 100%, social by a sixth
C23_Witness ==
    /\ ~insights.isNull
    /\ channelFocus # Null
    /\ insights.narratives.topChannel.ch = "search"
    /\ insights.narratives.topChannel.change = Q(-1000)
    /\ RefChannelDelta("social") = <<-1, 6>>

\* the markets of the filtered records, the months a market has records in,
\* a market's revenue in a month (months as the browser sees them)
RefMarkets == { rowsFiltered[k].city \o ", " \o rowsFiltered[k].state : k \in 1..Len(rowsFiltered) }
RefMarketMonths(mk) ==
    { RefLocalMonth(rowsFiltered[k]) :
         k \in { j \in 1..Len(rowsFiltered) :
                    rowsFiltered[j].city \o ", " \o rowsFiltered[j].state = mk } }
RefMarketRevenue(mk, ym) ==
    RefSum(SelectSeq(rowsFiltered, LAMBDA r :
               r.city \o ", " \o r.state = mk /\ RefLocalMonth(r) = ym), "revenue")

\* the revenue of the month before the latest of a market's months, 0 when
\* the market has a single month
RefMarketPrevRevenue(mk, c) ==
    IF RefMarketMonths(mk) = {c} THEN 0
    ELSE RefMarketRevenue(mk, RefLatest(RefMarketMonths(mk) \ {c}))

\* a market's revenue growth between the last two months of its own series
RefMarketGrowth(mk) ==
    RefDeltaOf(Q(RefMarketRevenue(mk, RefLatest(RefMarketMonths(mk)))),
               Q(RefMarketPrevRevenue(mk, RefLatest(RefMarketMonths(mk)))))

\* C24: the market named in the bestMarket narrative is one whose revenue
\* growth (delta convention, on the market's monthly revenue series) is the
\* maximum signed value over all markets of the records: no market has a
\* strictly higher growth, and a large negative growth never wins over a
\* higher signed one; the figure shown is that growth.
C24_BestMarketMaxSignedGrowth ==
    ~insights.isNull =>
        /\ insights.narratives.bestMarket.market \in RefMarkets
        /\ \A mk \in RefMarkets :
              RefLeq(RefMarketGrowth(mk),
                     RefMarketGrowth(insights.narratives.bestMarket.market))
        /\ RefRounds(insights.narratives.bestMarket.change,
                     RefMarketGrowth(insights.narratives.bestMarket.market))

\* another market fell by more, in magnitude, than the named market moved
C24_Witness ==
    /\ ~insights.isNull
    /\ \E mk \in RefMarkets :
          /\ RefMarketGrowth(mk)[1] < 0
          /\ ~RefAbsLeq(RefMarketGrowth(mk),
                        RefMarketGrowth(insights.narratives.bestMarket.market))

\* C25 as claimed: the change figure of the watchMetric narrative is the MoM
\* CVR delta by the delta convention on (curr.cvr, prev.cvr), the value the
\* MoM CVR card shows, for every curr and prev CVR, prev.cvr = 0 included.
C25_WatchMetricIsCvrCard ==
    ~insights.isNull =>
        RefRounds(insights.narratives.watchMetric.change, InsightsPanel(insights).MoM.CVR)

\* d is the earliest / the latest date of the loaded rows
RefIsMinDate(d) ==
    /\ \E i \in 1..Len(rows) : rows[i].date = d
    /\ \A i \in 1..Len(rows) : ~RefBefore(rows[i].date, d)
RefIsMaxDate(d) ==
    /\ \E i \in 1..Len(rows) : rows[i].date = d
    /\ \A i \in 1..Len(rows) : ~RefBefore(d, rows[i].date)

\* C26: Reset restores the unfiltered view from any filter state: afterwards
\* market and channel are "All" (no channel focus) and, for a non-empty
\* dataset, startDate and endDate are its minimum and maximum dates, so the
\* filtered rows are all the rows; the loaded rows and the tab are untouched.
C26_ResetRestoresUnfiltered ==
    [][Reset =>
          /\ selectedMarket' = "All"
          /\ selectedChannel' = "All"
          /\ focusOf(selectedChannel') = Null
          /\ (Len(rows) > 0 => RefIsMinDate(startDate') /\ RefIsMaxDate(endDate'))
          /\ rowsFiltered' = rows
          /\ metrics' = derive(rows, Null)
          /\ rows' = rows
          /\ tab' = tab]_vars

\* the unfiltered view of a loaded dataset, on a tab other than the first
C26_Witness ==
    /\ csv = "ready"
    /\ Len(rows) > 1
    /\ tab = "details"
    /\ selectedMarket = "All" /\ selectedChannel = "All"
    /\ RefIsMinDate(startDate) /\ RefIsMaxDate(endDate)
    /\ rowsFiltered = rows

\* all the metrics of the dashboard are zero
RefAllZero ==
    /\ metrics.totalRevenue = 0 /\ metrics.totalOrders = 0 /\ metrics.totalSessions = 0
    /\ metrics.aov = Zero /\ metrics.cvr = Zero /\ metrics.roas = Zero
    /\ metrics.byDate = <<>> /\ metrics.channelArr = <<>> /\ metrics.byMarket = <<>>

\* C27: when the dataset has loaded, the date-range initialisation sets a
\* bound only if it is still null: a null startDate becomes the dataset's
\* minimum date, a null endDate its maximum date, a bound the user already
\* chose stays; if both were null every loaded row passes the date filter
\* afterwards.  Before the load completes, and if it fails, rows stay empty
\* and all metrics are zero.
C27_InitFillsOnlyNullBounds ==
    /\ [](csv \in {"pending", "failed"} => rows = <<>> /\ rowsFiltered = <<>> /\ RefAllZero)
    /\ [][(csv = "effect" /\ csv' = "ready" /\ Len(rows) > 0) =>
             /\ IF startDate = NullDate THEN RefIsMinDate(startDate')
                ELSE startDate' = startDate
             /\ IF endDate = NullDate THEN RefIsMaxDate(endDate')
                ELSE endDate' = endDate
             /\ (startDate = NullDate /\ endDate = NullDate) =>
                   /\ \A i \in 1..Len(rows) :
                         /\ ~RefBefore(rows[i].date, startDate')
                         /\ ~RefBefore(endDate', rows[i].date)
                   /\ rowsFiltered' = rows]_vars

\* a dataset has loaded after the user chose a start date: that bound stays,
\* the end date is the dataset's maximum
C27_Witness ==
    /\ csv = "ready"
    /\ Len(rows) > 1
    /\ startDate # NullDate /\ ~RefIsMinDate(startDate)
    /\ ToLocal(startDate, tz).h = 0
    /\ RefIsMaxDate(endDate) /\ ToLocal(endDate, tz).h # 0

\* the bound b is what the date input yields for the day of record r:
\* local midnight of the day written in the record's date string
RefPickedDayOf(b, r) ==
    /\ b # NullDate
    /\ ToLocal(b, tz) = [y |-> r.date.y, m |-> r.date.m, d |-> r.date.d, h |-> 0]

RefStartOk(r) == startDate = NullDate \/ ~RefBefore(r.date, startDate)
RefEndOk(r) == endDate = NullDate \/ ~RefBefore(endDate, r.date)
RefShown(r) == \E k \in 1..Len(rowsFiltered) : rowsFiltered[k] = r

\* C28 as claimed: the bounds chosen in the date inputs are inclusive by
\* calendar day in every timezone: a record parsed from the date string of
\* day D passes the filter when the user selects D as the start date and
\* when the user selects D as the end date (the other bound and the market
\* permitting).
C28_PickedDayIsInclusive ==
    \A i \in 1..Len(rows) :
        /\ (RefPickedDayOf(startDate, rows[i]) /\ RefEndOk(rows[i]) /\ RefInMarket(rows[i]))
              => RefShown(rows[i])
        /\ (RefPickedDayOf(endDate, rows[i]) /\ RefStartOk(rows[i]) /\ RefInMarket(rows[i]))
              => RefShown(rows[i])

\* a market's growth between the two months of the MoM cards
RefMarketDelta(mk) ==
    RefDeltaOf(Q(RefMarketRevenue(mk, <<insights.labels.currLabel.y, insights.labels.currLabel.m>>)),
               Q(RefMarketRevenue(mk, <<insights.labels.prevLabel.y, insights.labels.prevLabel.m>>)))

\* C29 as claimed: every month-over-month figure of the narratives compares
\* the two months of the MoM cards: each channel's ROAS change and each
\* market's revenue growth is between that group's values in the curr month
\* and in the prev month, also for a market without records in one of the
\* two months or with records in a single month.
C29_NarrativesCompareCardMonths ==
    ~insights.isNull =>
        /\ \A i \in 1..Len(channelStats(rowsFiltered, tz)) :
              channelStats(rowsFiltered, tz)[i].dRoas
                  = RefChannelDelta(channelStats(rowsFiltered, tz)[i].ch)
        /\ \A i \in 1..Len(growth(rowsFiltered, tz)) :
              growth(rowsFiltered, tz)[i].g = RefMarketDelta(growth(rowsFiltered, tz)[i].market)

====
